---- MODULE Spec2Model ----
(***************************************************************************)
(* Model of the Fatherhood Initiative API (express2): the login and        *)
(* setup-password flows, the JWT authentication middleware, the rate       *)
(* limited public signup and the admin routes on signup records.           *)
(*                                                                         *)
(* Strings are sequences of one-character strings, so that trim(),         *)
(* toLowerCase(), the ILIKE pattern match of the datastore and the         *)
(* password regular expression are computed and not assumed.               *)
(* Time is counted in seconds.                                             *)
(***************************************************************************)
EXTENDS Integers, Sequences, FiniteSets, TLC

VARIABLES
    admins,         \* table admin_users: id -> row
    signups,        \* table fatherhood_signups: id -> row
    nextId,         \* next id the datastore gives to a signup row
    supabaseAdmin,  \* TRUE iff the privileged client was created (SUPABASE_SERVICE_KEY set)
    jwtSecret,      \* process.env.JWT_SECRET, NoSecret when unset
    now,            \* wall clock, seconds
    ticks,          \* number of clock advances so far
    hits,           \* signupLimiter store: ip -> requests counted in the current window
    resetTime,      \* signupLimiter store: ip -> end of the current window
    pending,        \* signup handlers suspended between the email check and the insert
    passed,         \* history: ip -> times of the requests the limiter let through
                    \* in the hour up to the last of them
    issued,         \* tokens clients hold, each with the time of the response it came in
    req,            \* the last request handled
    res             \* what that request ended in

vars == <<admins, signups, nextId, supabaseAdmin, jwtSecret, now, ticks,
          hits, resetTime, pending, passed, issued, req, res>>

----------------------------------------------------------------------------
(* Bounds of the model *)

MaxTicks == 3
MaxTokens == 1
MaxSignups == 2
MaxPending == 2
MaxHits == 7

----------------------------------------------------------------------------
(* Characters and strings *)

LowerChars == {"a", "b", "d", "e", "l", "o", "p", "r", "s", "t", "w", "h", "z"}
UpperChars == {"A", "B", "P", "S"}
DigitChars == {"0", "1"}
NewLine == "\n"

\* String.prototype.toLowerCase on one character
LowerChar(c) ==
    CASE c = "A" -> "a"
      [] c = "B" -> "b"
      [] c = "P" -> "p"
      [] c = "S" -> "s"
      [] OTHER -> c

toLowerCase(s) == [i \in 1..Len(s) |-> LowerChar(s[i])]

RECURSIVE TrimLeft(_)
TrimLeft(s) == IF s # <<>> /\ Head(s) = " " THEN TrimLeft(Tail(s)) ELSE s

RECURSIVE TrimRight(_)
TrimRight(s) ==
    IF s # <<>> /\ s[Len(s)] = " " THEN TrimRight(SubSeq(s, 1, Len(s) - 1)) ELSE s

\* String.prototype.trim
trim(s) == TrimRight(TrimLeft(s))

\* SQL LIKE: "_" matches any one character, "%" any run of characters
RECURSIVE LikeMatch(_, _)
LikeMatch(s, p) ==
    IF p = <<>> THEN s = <<>>
    ELSE IF Head(p) = "%"
         THEN \E k \in 0..Len(s) : LikeMatch(SubSeq(s, k + 1, Len(s)), Tail(p))
    ELSE /\ s # <<>>
         /\ (Head(p) = "_" \/ Head(p) = Head(s))
         /\ LikeMatch(Tail(s), Tail(p))

\* the filter .ilike(column, pattern): LIKE without regard to case
ilike(value, pattern) == LikeMatch(toLowerCase(value), toLowerCase(pattern))

\* the same email up to case
SameEmail(a, b) == toLowerCase(a) = toLowerCase(b)

Chars(s) == {s[i] : i \in 1..Len(s)}

\* the regular expression without its uppercase lookahead
passwordRegexNoUpper(password) ==
    /\ Chars(password) \cap LowerChars # {}
    /\ Chars(password) \cap DigitChars # {}
    /\ NewLine \notin Chars(password)
    /\ Len(password) >= 8

\* /^(?=.*[a-z])(?=.*[A-Z])(?=.*\d).{8,}$/.test(password); "." matches no line break
passwordRegexTest(password) ==
    /\ Chars(password) \cap LowerChars # {}
    /\ Chars(password) \cap UpperChars # {}
    /\ Chars(password) \cap DigitChars # {}
    /\ NewLine \notin Chars(password)
    /\ Len(password) >= 8

saltRounds == 12

\* bcrypt.hash(password, saltRounds)
bcryptHash(password) == [alg |-> "bcrypt", cost |-> saltRounds, of |-> password]

NoHash == [alg |-> "null", cost |-> 0, of |-> <<>>]

\* bcrypt.compare(password, hash)
bcryptCompare(password, hash) == hash.alg = "bcrypt" /\ hash.of = password

----------------------------------------------------------------------------
(* Tokens *)

NoSecret == "unset"
Secrets == {"k1"}
ForeignSecret == "k9"

\* expiresIn: '24h', in seconds
expiresIn == 86400

\* jwt.sign({id, email, name}, jwtSecret, {expiresIn: '24h'})
jwtSign(user, secret, t) ==
    [kind |-> "jwt", id |-> user.id, email |-> user.email, name |-> user.name,
     iat |-> t, exp |-> t + expiresIn, sig |-> secret]

Garbage == [kind |-> "garbage", id |-> 0, email |-> <<>>, name |-> "", iat |-> 0,
            exp |-> 0, sig |-> ""]

\* jwt.verify with the option ignoreExpiration
jwtVerifyIgnoreExpiration(token, secret, t) ==
    IF token.kind # "jwt" \/ token.sig # secret THEN "JsonWebTokenError" ELSE "ok"

\* jwt.verify(token, jwtSecret): the decoded claims, or the name of the error thrown
jwtVerify(token, secret, t) ==
    IF token.kind # "jwt" \/ token.sig # secret THEN "JsonWebTokenError"
    ELSE IF t >= token.exp THEN "TokenExpiredError"
    ELSE "ok"

----------------------------------------------------------------------------
(* Inputs of the requests *)

AdminIds == {1, 2}
IPs == {"ip1", "ip2"}

EmailA == <<"a", "_", "b">>
EmailB == <<"a", "d", "b">>

\* email fields of request bodies; <<>> is a missing or empty field
ReqEmails ==
    {<<>>, EmailA, <<"A", "_", "B">>, <<" ", "a", "d", "b">>, <<"%">>, <<"e", "e">>}

PwGood == <<"P", "a", "s", "s", "w", "0", "r", "d">>
PwOther == <<"P", "a", "s", "s", "w", "0", "r", "d", "B">>
PwNoUpper == <<"a", "l", "l", "l", "o", "w", "e", "r", "1">>
PwShort == <<"S", "h", "0", "r", "t">>
PwNoDigit == <<"P", "a", "s", "s", "w", "o", "r", "d">>
PwNoLower == <<"A", "B", "A", "B", "A", "B", "A", "1">>
PwLineBreak == <<"P", "a", "s", "s", "w", "0", "r", "d", "\n">>

\* password fields of request bodies; <<>> is a missing or empty field
ReqPasswords == {<<>>, PwGood, PwOther, PwNoUpper}

\* the passwords the strength rule is tried on
StrengthCases ==
    {<<>>, PwGood, PwOther, PwNoUpper, PwShort, PwNoDigit, PwNoLower, PwLineBreak}

\* outcome of a datastore write: done, refused with an error result, or the
\* client call rejecting (an exception at the await)
Faults == {"none", "error", "throw"}

\* a second write is reached only when the first one was done
SecondFaults(f1) == IF f1 = "none" THEN Faults ELSE {"none"}

\* the advance that matters to the limiter's window: half of it, so that a
\* request falls inside the window or at its end
WindowJumps == {1800}

\* the advances that matter to a token: one minute, 23 hours 59 minutes
TokenJumps == {60, 86340}

----------------------------------------------------------------------------
(* Responses *)

NoUserInfo == [id |-> 0, email |-> <<>>, name |-> ""]

\* what a request ended in: the response sent, the datastore calls made for it,
\* how often the route's handler was entered, the req.user it saw and how the
\* datastore write went that the handler got to
Response(route, status, body, db) ==
    [route |-> route, status |-> status, body |-> body, db |-> db, next |-> 1,
     user |-> NoUserInfo, fault |-> "none"]

ValidationFailed ==
    [error |-> "Validation failed", message |-> "Email and password are required"]

ServiceUnavailable ==
    [error |-> "Service unavailable",
     message |-> "Admin authentication service is not configured"]

InvalidCredentials ==
    [error |-> "Invalid credentials", message |-> "Invalid email or password"]

AccountDisabled ==
    [error |-> "Account disabled",
     message |-> "Your account has been disabled. Please contact an administrator."]

PasswordNotSet(user) ==
    [error |-> "Password not set", message |-> "Please set your password first",
     requiresPasswordSetup |-> TRUE, email |-> user.email, name |-> user.name]

ServerConfigurationError ==
    [error |-> "Server configuration error",
     message |-> "Authentication system not properly configured"]

LoginServerError ==
    [error |-> "Server error", message |-> "An unexpected error occurred during login"]

LoginSuccess(token, user) ==
    [success |-> TRUE, message |-> "Login successful", token |-> token,
     user |-> [id |-> user.id, email |-> user.email, name |-> user.name,
               firstLogin |-> user.first_login]]

PasswordRequirementsNotMet ==
    [error |-> "Password requirements not met",
     message |-> "Password must be at least 8 characters with at least one uppercase letter, one lowercase letter, and one number"]

UserNotFound ==
    [error |-> "User not found", message |-> "No account found with this email address"]

SetupServerError ==
    [error |-> "Server error", message |-> "Failed to set password. Please try again."]

SetupSuccess(token, user) ==
    [success |-> TRUE, message |-> "Password set successfully", token |-> token,
     user |-> [id |-> user.id, email |-> user.email, name |-> user.name,
               firstLogin |-> FALSE]]

----------------------------------------------------------------------------
(* Datastore: table admin_users *)

NoUser == 0

\* .from('admin_users').select('*').ilike('email', pattern).single():
\* the id of the one row the filter keeps; no row, or several, is an error
singleAdmin(pattern) ==
    LET rows == {id \in DOMAIN admins : ilike(admins[id].email, pattern)}
    IN  IF Cardinality(rows) = 1 THEN CHOOSE id \in rows : TRUE ELSE NoUser

\* the lookup both flows make with the email of the request body
findUser(email) == singleAdmin(toLowerCase(trim(email)))

SelectAdmin == "admin_users.select"
UpdateAdmin == "admin_users.update"

----------------------------------------------------------------------------
(* POST /api/auth/login *)

\* the handler's result: the response, and the row update it made, if any
LoginResultHashFirst(email, password, fault) ==
    IF email = <<>> \/ password = <<>>
    THEN [status |-> 400, body |-> ValidationFailed, db |-> <<>>, updated |-> NoUser]
    ELSE IF ~supabaseAdmin
    THEN [status |-> 503, body |-> ServiceUnavailable, db |-> <<>>, updated |-> NoUser]
    ELSE LET id == findUser(email) IN
    IF id = NoUser
    THEN [status |-> 401, body |-> InvalidCredentials, db |-> <<SelectAdmin>>,
          updated |-> NoUser]
    ELSE LET user == admins[id] IN
    IF user.password_hash = NoHash
    THEN [status |-> 403, body |-> PasswordNotSet(user), db |-> <<SelectAdmin>>,
          updated |-> NoUser]
    ELSE IF ~user.is_active
    THEN [status |-> 403, body |-> AccountDisabled, db |-> <<SelectAdmin>>,
          updated |-> NoUser]
    ELSE IF ~bcryptCompare(password, user.password_hash)
    THEN [status |-> 401, body |-> InvalidCredentials, db |-> <<SelectAdmin>>,
          updated |-> NoUser]
    ELSE IF jwtSecret = NoSecret
    THEN [status |-> 500, body |-> ServerConfigurationError, db |-> <<SelectAdmin>>,
          updated |-> NoUser]
    ELSE IF fault = "throw"
    THEN [status |-> 500, body |-> LoginServerError,
          db |-> <<SelectAdmin, UpdateAdmin>>, updated |-> NoUser]
    ELSE [status |-> 200, body |-> LoginSuccess(jwtSign(user, jwtSecret, now), user),
          db |-> <<SelectAdmin, UpdateAdmin>>,
          updated |-> IF fault = "none" THEN id ELSE NoUser]

LoginResult(email, password, fault) ==
    IF email = <<>> \/ password = <<>>
    THEN [status |-> 400, body |-> ValidationFailed, db |-> <<>>, updated |-> NoUser]
    ELSE IF ~supabaseAdmin
    THEN [status |-> 503, body |-> ServiceUnavailable, db |-> <<>>, updated |-> NoUser]
    ELSE LET id == findUser(email) IN
    IF id = NoUser
    THEN [status |-> 401, body |-> InvalidCredentials, db |-> <<SelectAdmin>>,
          updated |-> NoUser]
    ELSE LET user == admins[id] IN
    IF ~user.is_active
    THEN [status |-> 403, body |-> AccountDisabled, db |-> <<SelectAdmin>>,
          updated |-> NoUser]
    ELSE IF user.password_hash = NoHash
    THEN [status |-> 403, body |-> PasswordNotSet(user), db |-> <<SelectAdmin>>,
          updated |-> NoUser]
    ELSE IF ~bcryptCompare(password, user.password_hash)
    THEN [status |-> 401, body |-> InvalidCredentials, db |-> <<SelectAdmin>>,
          updated |-> NoUser]
    ELSE IF jwtSecret = NoSecret
    THEN [status |-> 500, body |-> ServerConfigurationError, db |-> <<SelectAdmin>>,
          updated |-> NoUser]
    ELSE IF fault = "throw"
    THEN [status |-> 500, body |-> LoginServerError,
          db |-> <<SelectAdmin, UpdateAdmin>>, updated |-> NoUser]
    ELSE [status |-> 200, body |-> LoginSuccess(jwtSign(user, jwtSecret, now), user),
          db |-> <<SelectAdmin, UpdateAdmin>>,
          updated |-> IF fault = "none" THEN id ELSE NoUser]

\* a client keeps the token of a response while it has room for one
Keep(body) ==
    IF "token" \in DOMAIN body /\ Cardinality(issued) < MaxTokens
    THEN issued \cup {[token |-> body.token, at |-> now]} ELSE issued

\* a request to one of the /api/auth routes
Request(route, header, email, password) ==
    [route |-> route, header |-> header, email |-> email, password |-> password]

Login(email, password, fault) ==
    \E r \in {LoginResult(email, password, fault)} :
    /\ admins' = IF r.updated = NoUser THEN admins
                 ELSE [admins EXCEPT ![r.updated].last_login_at = now,
                                     ![r.updated].last_activity_at = now,
                                     ![r.updated].first_login = FALSE]
    /\ issued' = Keep(r.body)
    /\ req' = Request("login", <<>>, email, password)
    /\ res' = [Response("login", r.status, r.body, r.db)
                EXCEPT !.fault = IF Len(r.db) = 2 THEN fault ELSE "none"]
    /\ UNCHANGED <<signups, nextId, supabaseAdmin, jwtSecret, now, ticks, hits, passed,
                   resetTime, pending>>

----------------------------------------------------------------------------
(* POST /api/auth/setup-password *)

\* fault1 is the outcome of the update that stores the hash, fault2 of the
\* update of the login timestamps
SetupResult(email, password, fault1, fault2) ==
    IF email = <<>> \/ password = <<>>
    THEN [status |-> 400, body |-> ValidationFailed, db |-> <<>>,
          hashed |-> NoUser, stamped |-> NoUser]
    ELSE IF ~passwordRegexTest(password)
    THEN [status |-> 400, body |-> PasswordRequirementsNotMet, db |-> <<>>,
          hashed |-> NoUser, stamped |-> NoUser]
    ELSE IF ~supabaseAdmin
    THEN [status |-> 503, body |-> ServiceUnavailable, db |-> <<>>,
          hashed |-> NoUser, stamped |-> NoUser]
    ELSE LET id == findUser(email) IN
    IF id = NoUser
    THEN [status |-> 404, body |-> UserNotFound, db |-> <<SelectAdmin>>,
          hashed |-> NoUser, stamped |-> NoUser]
    ELSE LET user == admins[id] IN
    IF ~user.is_active
    THEN [status |-> 403, body |-> AccountDisabled, db |-> <<SelectAdmin>>,
          hashed |-> NoUser, stamped |-> NoUser]
    ELSE IF fault1 # "none"
    THEN [status |-> 500, body |-> SetupServerError,
          db |-> <<SelectAdmin, UpdateAdmin>>, hashed |-> NoUser, stamped |-> NoUser]
    ELSE IF jwtSecret = NoSecret
    THEN [status |-> 500, body |-> ServerConfigurationError,
          db |-> <<SelectAdmin, UpdateAdmin>>, hashed |-> id, stamped |-> NoUser]
    ELSE IF fault2 = "throw"
    THEN [status |-> 500, body |-> SetupServerError,
          db |-> <<SelectAdmin, UpdateAdmin, UpdateAdmin>>,
          hashed |-> id, stamped |-> NoUser]
    ELSE [status |-> 200, body |-> SetupSuccess(jwtSign(user, jwtSecret, now), user),
          db |-> <<SelectAdmin, UpdateAdmin, UpdateAdmin>>,
          hashed |-> id, stamped |-> IF fault2 = "none" THEN id ELSE NoUser]

\* the row after the two updates of the handler, as far as they were made
SetupRow(row, password, hashed, stamped) ==
    LET a == IF hashed
             THEN [row EXCEPT !.password_hash = bcryptHash(password),
                              !.first_login = FALSE, !.updated_at = now]
             ELSE row
    IN  IF stamped
        THEN [a EXCEPT !.last_login_at = now, !.last_activity_at = now]
        ELSE a

SetupPassword(email, password, fault1, fault2) ==
    \E r \in {SetupResult(email, password, fault1, fault2)} :
    /\ admins' = [id \in DOMAIN admins |->
                    SetupRow(admins[id], password, r.hashed = id, r.stamped = id)]
    /\ issued' = Keep(r.body)
    /\ req' = Request("setup-password", <<>>, email, password)
    /\ res' = [Response("setup-password", r.status, r.body, r.db)
                EXCEPT !.fault = IF Len(r.db) >= 2 /\ fault1 # "none" THEN fault1
                                 ELSE IF Len(r.db) = 3 THEN fault2 ELSE "none"]
    /\ UNCHANGED <<signups, nextId, supabaseAdmin, jwtSecret, now, ticks, hits, passed,
                   resetTime, pending>>

----------------------------------------------------------------------------
(* Authentication middleware *)

\* a word of an Authorization header that is no token: the scheme
Word(w) == [kind |-> w, id |-> 0, email |-> <<>>, name |-> "", iat |-> 0,
            exp |-> 0, sig |-> ""]

NoToken == Word("")

\* authHeader && authHeader.split(' ')[1]; a header is the sequence of its words
headerToken(header) == IF Len(header) >= 2 THEN header[2] ELSE NoToken

NoTokenProvided ==
    [error |-> "Unauthorized", message |-> "No authentication token provided"]

TokenExpired ==
    [error |-> "Unauthorized", message |-> "Token has expired. Please log in again."]

InvalidToken == [error |-> "Unauthorized", message |-> "Invalid token"]

\* the middleware answering a missing secret like a bad token
authenticateTokenActiveOnly(header) ==
    LET token == headerToken(header) IN
    IF token = NoToken
    THEN [status |-> 401, body |-> NoTokenProvided, user |-> NoUserInfo, next |-> 0]
    ELSE IF jwtSecret = NoSecret
    THEN [status |-> 500, body |-> ServerConfigurationError, user |-> NoUserInfo,
          next |-> 0]
    ELSE LET v == jwtVerify(token, jwtSecret, now) IN
    IF v = "TokenExpiredError"
    THEN [status |-> 401, body |-> TokenExpired, user |-> NoUserInfo, next |-> 0]
    ELSE IF v = "JsonWebTokenError" \/ ~admins[token.id].is_active
    THEN [status |-> 401, body |-> InvalidToken, user |-> NoUserInfo, next |-> 0]
    ELSE [status |-> 200, body |-> [success |-> TRUE],
          user |-> [id |-> token.id, email |-> token.email, name |-> token.name],
          next |-> 1]

authenticateTokenSecret401(header) ==
    LET token == headerToken(header) IN
    IF token = NoToken
    THEN [status |-> 401, body |-> NoTokenProvided, user |-> NoUserInfo, next |-> 0]
    ELSE LET v == jwtVerify(token, jwtSecret, now) IN
    IF v = "TokenExpiredError"
    THEN [status |-> 401, body |-> TokenExpired, user |-> NoUserInfo, next |-> 0]
    ELSE IF v = "JsonWebTokenError"
    THEN [status |-> 401, body |-> InvalidToken, user |-> NoUserInfo, next |-> 0]
    ELSE [status |-> 200, body |-> [success |-> TRUE],
          user |-> [id |-> token.id, email |-> token.email, name |-> token.name],
          next |-> 1]

\* authenticateToken(req, res, next): the response it sends, or req.user and
\* the number of calls of next()
authenticateToken(header) ==
    LET token == headerToken(header) IN
    IF token = NoToken
    THEN [status |-> 401, body |-> NoTokenProvided, user |-> NoUserInfo, next |-> 0]
    ELSE IF jwtSecret = NoSecret
    THEN [status |-> 500, body |-> ServerConfigurationError, user |-> NoUserInfo,
          next |-> 0]
    ELSE LET v == jwtVerify(token, jwtSecret, now) IN
    IF v = "TokenExpiredError"
    THEN [status |-> 401, body |-> TokenExpired, user |-> NoUserInfo, next |-> 0]
    ELSE IF v = "JsonWebTokenError"
    THEN [status |-> 401, body |-> InvalidToken, user |-> NoUserInfo, next |-> 0]
    ELSE [status |-> 200, body |-> [success |-> TRUE],
          user |-> [id |-> token.id, email |-> token.email, name |-> token.name],
          next |-> 1]

\* tokens a client can send: those it was given, one signed with another
\* secret, and a string that is no token
ForgedToken == jwtSign([id |-> 1, email |-> EmailA, name |-> "n1"], ForeignSecret, now)

Held == {k.token : k \in issued}

\* Authorization headers: none, "Bearer <token>", "Basic <token>", "<token>"
Headers ==
    {<<>>}
    \cup {<<Word("Bearer"), t>> : t \in Held \cup {ForgedToken, Garbage}}
    \cup {<<Word("Basic"), t>> : t \in Held}
    \cup {<<t>> : t \in Held}


\* a route registered as router.METHOD(path, authenticateToken, handler):
\* the handler's result h counts only if the middleware called next()
GuardedNot(route, a, h) ==
    [route |-> route, status |-> h.status, body |-> h.body, db |-> h.db,
     next |-> 1, user |-> a.user, fault |-> "none"]

Guarded(route, a, h) ==
    IF a.next = 0
    THEN [route |-> route, status |-> a.status, body |-> a.body, db |-> <<>>,
          next |-> 0, user |-> NoUserInfo, fault |-> "none"]
    ELSE [route |-> route, status |-> h.status, body |-> h.body, db |-> h.db,
          next |-> a.next, user |-> a.user, fault |-> "none"]

----------------------------------------------------------------------------
(* GET /api/auth/verify, POST /api/auth/logout, POST /api/auth/update-activity *)

Verify(header) ==
    LET a == authenticateToken(header)
        h == [status |-> 200, body |-> [success |-> TRUE, user |-> a.user],
              db |-> <<>>]
    IN  /\ req' = Request("verify", header, <<>>, <<>>)
        /\ res' = Guarded("verify", a, h)
        /\ UNCHANGED <<admins, signups, nextId, supabaseAdmin, jwtSecret, now,
                       ticks, hits, passed, resetTime, pending, issued>>

\* if (supabaseAdmin && req.user?.id) update last_activity_at where id = req.user.id
touchActivity(a, fault) ==
    IF a.next = 1 /\ supabaseAdmin /\ a.user.id # 0 /\ fault = "none"
    THEN [id \in DOMAIN admins |->
            IF id = a.user.id THEN [admins[id] EXCEPT !.last_activity_at = now]
            ELSE admins[id]]
    ELSE admins

activityCalls(a) == IF supabaseAdmin /\ a.user.id # 0 THEN <<UpdateAdmin>> ELSE <<>>

Logout(header, fault) ==
    LET a == authenticateToken(header)
        h == [status |-> 200,
              body |-> [success |-> TRUE, message |-> "Logged out successfully"],
              db |-> activityCalls(a)]
    IN  /\ admins' = touchActivity(a, fault)
        /\ req' = Request("logout", header, <<>>, <<>>)
        /\ res' = Guarded("logout", a, h)
        /\ UNCHANGED <<signups, nextId, supabaseAdmin, jwtSecret, now, ticks, hits, passed,
                       resetTime, pending, issued>>

UpdateActivity(header, fault) ==
    LET a == authenticateToken(header)
        h == [status |-> 200, body |-> [success |-> TRUE], db |-> activityCalls(a)]
    IN  /\ admins' = touchActivity(a, fault)
        /\ req' = Request("update-activity", header, <<>>, <<>>)
        /\ res' = Guarded("update-activity", a, h)
        /\ UNCHANGED <<signups, nextId, supabaseAdmin, jwtSecret, now, ticks, hits, passed,
                       resetTime, pending, issued>>

----------------------------------------------------------------------------
(* Datastore: table fatherhood_signups *)

SelectSignups == "fatherhood_signups.select"
InsertSignup == "fatherhood_signups.insert"
UpdateSignup == "fatherhood_signups.update"
DeleteSignups == "fatherhood_signups.delete"

validStatuses == {"pending", "contacted", "enrolled", "inactive", "completed"}

\* a value of a request body that may be missing
Undefined == "undefined"

Ids == DOMAIN signups

\* rows whose email matches the pattern of .ilike('email', pattern)
rowsLike(pattern) == {id \in Ids : ilike(signups[id].email, pattern)}

\* the unique constraint on email, which takes no account of case
violatesUnique(email, except) ==
    \E id \in Ids \ {except} : SameEmail(signups[id].email, email)

\* the table with one more row
inserted(row) == [id \in Ids \cup {row.id} |-> IF id = row.id THEN row ELSE signups[id]]

----------------------------------------------------------------------------
(* signupLimiter: rateLimit({windowMs, max}) with its memory store *)

windowMs == 60 * 60 * 1000
max == 5

TooManyRequests ==
    [error |-> "Too many signup attempts",
     message |-> "Too many signup attempts from this IP, please try again later."]

\* the count the store gives the request of ip: the first request of a window
\* opens it for windowMs, each request in it adds one
counted(ip) == IF now >= resetTime[ip] THEN 1 ELSE hits[ip] + 1

windowEnd(ip) == IF now >= resetTime[ip] THEN now + windowMs \div 1000 ELSE resetTime[ip]

\* history of an address after a request passed at time t: the passes of the
\* hour that ends with this one
lastHour(times, t) ==
    LET Recent(u) == u > t - windowMs \div 1000
    IN  Append(SelectSeq(times, Recent), t)

\* the limiter lets the request through
limiterPassesBelowMax(ip) == counted(ip) < max

limiterPasses(ip) == counted(ip) <= max

----------------------------------------------------------------------------
(* POST /api/fatherhood/signup *)

FieldsInvalid == [error |-> "Validation failed"]

EmailRegistered ==
    [error |-> "Email already registered",
     message |-> "This email is already signed up for the Fatherhood Initiative. If you need to update your information, please contact fatherhood@manupinc.org"]

EmailRegisteredOnInsert ==
    [error |-> "Email already registered", message |-> "This email is already signed up."]

FailedToSave ==
    [error |-> "Failed to save signup",
     message |-> "We couldn't process your signup. Please try again or contact fatherhood@manupinc.org"]

SignupServerError ==
    [error |-> "Server error",
     message |-> "An unexpected error occurred. Please try again."]

SignupCreated(row) ==
    [success |-> TRUE,
     message |-> "Thank you for signing up for the Fatherhood Initiative!",
     data |-> [email |-> row.email]]

Suspended == [awaiting |-> "insert"]

SignupRequest(ip, email, valid, contact, sms, status) ==
    [route |-> "signup", ip |-> ip, email |-> email, valid |-> valid,
     consent_to_contact |-> contact, consent_to_sms |-> sms, status |-> status]

\* .select('id').ilike('email', email).maybeSingle(): the one row kept, none
\* when nothing matches and none (with an error that is only logged) when
\* several match
existing(email) ==
    LET rows == rowsLike(email)
    IN  IF Cardinality(rows) = 1 THEN CHOOSE id \in rows : TRUE ELSE 0

\* the handler up to its second await: limiter, validation, email check
SignupStartResult(r) ==
    IF ~limiterPasses(r.ip)
    THEN [status |-> 429, body |-> TooManyRequests, db |-> <<>>]
    ELSE IF ~r.valid
    THEN [status |-> 400, body |-> FieldsInvalid, db |-> <<>>]
    ELSE IF existing(r.email) # 0
    THEN [status |-> 409, body |-> EmailRegistered, db |-> <<SelectSignups>>]
    ELSE [status |-> 0, body |-> Suspended, db |-> <<SelectSignups>>]

SignupStart(ip, email, valid, contact, sms, status) ==
    \E r \in {SignupRequest(ip, email, valid, contact, sms, status)} :
    \E o \in {SignupStartResult(r)} :
    /\ counted(ip) <= MaxHits
    /\ Len(pending) < MaxPending
    /\ hits' = [hits EXCEPT ![ip] = counted(ip)]
    /\ resetTime' = [resetTime EXCEPT ![ip] = windowEnd(ip)]
    /\ passed' = IF limiterPasses(ip) THEN [passed EXCEPT ![ip] = lastHour(@, now)]
                 ELSE passed
    /\ pending' = IF o.status = 0 THEN Append(pending, r) ELSE pending
    /\ req' = r
    /\ res' = Response("signup", o.status, o.body, o.db)
    /\ UNCHANGED <<admins, signups, nextId, supabaseAdmin, jwtSecret, now, ticks,
                   issued>>

\* the row the handler inserts
signupRowStatusOfBody(r, id) ==
    [id |-> id, email |-> toLowerCase(r.email),
     consent_to_contact |-> IF r.consent_to_contact = "false" THEN "false" ELSE "true",
     consent_to_sms |-> IF r.consent_to_sms \in {Undefined, "false"} THEN "false"
                        ELSE r.consent_to_sms,
     status |-> IF r.status = Undefined THEN "pending" ELSE r.status,
     entry_source |-> "public", created_at |-> now]

signupRow(r, id) ==
    [id |-> id, email |-> toLowerCase(r.email),
     consent_to_contact |-> IF r.consent_to_contact = "false" THEN "false" ELSE "true",
     consent_to_sms |-> IF r.consent_to_sms \in {Undefined, "false"} THEN "false"
                        ELSE r.consent_to_sms,
     status |-> "pending", entry_source |-> "public", created_at |-> now]

\* the insert and what the handler answers; fault is the outcome of the insert
\* apart from the unique constraint
SignupFinishResultNo23505(r, fault) ==
    IF fault = "throw"
    THEN [status |-> 500, body |-> SignupServerError, row |-> 0]
    ELSE IF violatesUnique(toLowerCase(r.email), 0) \/ fault = "error"
    THEN [status |-> 500, body |-> FailedToSave, row |-> 0]
    ELSE [status |-> 201, body |-> SignupCreated(signupRow(r, nextId)), row |-> nextId]

SignupFinishResult(r, fault) ==
    IF fault = "throw"
    THEN [status |-> 500, body |-> SignupServerError, row |-> 0]
    ELSE IF violatesUnique(toLowerCase(r.email), 0)
    THEN [status |-> 409, body |-> EmailRegisteredOnInsert, row |-> 0]
    ELSE IF fault = "error"
    THEN [status |-> 500, body |-> FailedToSave, row |-> 0]
    ELSE [status |-> 201, body |-> SignupCreated(signupRow(r, nextId)), row |-> nextId]

Without(seq, i) == SubSeq(seq, 1, i - 1) \o SubSeq(seq, i + 1, Len(seq))

SignupFinish(i, fault) ==
    \E o \in {SignupFinishResult(pending[i], fault)} :
    /\ o.row # 0 => nextId <= MaxSignups
    /\ signups' = IF o.row = 0 THEN signups ELSE inserted(signupRow(pending[i], nextId))
    /\ nextId' = IF o.row = 0 THEN nextId ELSE nextId + 1
    /\ pending' = Without(pending, i)
    /\ req' = pending[i]
    /\ res' = [Response("signup", o.status, o.body, <<SelectSignups, InsertSignup>>)
                EXCEPT !.fault = fault]
    /\ UNCHANGED <<admins, supabaseAdmin, jwtSecret, now, ticks, hits, passed, resetTime,
                   issued>>

----------------------------------------------------------------------------
(* The routes of /api/fatherhood behind authenticateToken *)

AdminNotConfigured == [error |-> "Admin access not configured"]

AdminNotConfiguredList ==
    [error |-> "Admin access not configured",
     message |-> "SUPABASE_SERVICE_KEY is required for this endpoint"]

InvalidStatus == [error |-> "Invalid status", validStatuses |-> validStatuses]

AdminRequest(route, header, id, body) ==
    [route |-> route, header |-> header, id |-> id, body |-> body]

\* a body without an email
NoEmail == <<>>

NoBody == [email |-> NoEmail, status |-> Undefined, entry_source |-> Undefined]

\* what a handler did: its response, its datastore calls and the table after it
Handled(status, body, db, table) ==
    [status |-> status, body |-> body, db |-> db, table |-> table]

\* a guarded route as one step: the table changes only if the handler ran
AdminStep(r, a, h) ==
    /\ signups' = IF a.next = 1 THEN h.table ELSE signups
    /\ req' = r
    /\ res' = Guarded(r.route, a, h)

\* GET /signups, with the status filter of the query string
listSignups(status) ==
    IF ~supabaseAdmin THEN Handled(503, AdminNotConfiguredList, <<>>, signups)
    ELSE Handled(200,
                 [success |-> TRUE,
                  data |-> {signups[id] : id \in {i \in Ids :
                               status = Undefined \/ signups[i].status = status}}],
                 <<SelectSignups>>, signups)

ListSignups(header, status) ==
    /\ AdminStep(AdminRequest("list", header, 0, [NoBody EXCEPT !.status = status]),
                 authenticateToken(header), listSignups(status))
    /\ UNCHANGED <<admins, nextId, supabaseAdmin, jwtSecret, now, ticks, hits, passed,
                   resetTime, pending, issued>>

\* GET /signups/:id
getSignup(id) ==
    IF ~supabaseAdmin THEN Handled(503, AdminNotConfigured, <<>>, signups)
    ELSE IF id \notin Ids
    THEN Handled(404, [error |-> "Signup not found"], <<SelectSignups>>, signups)
    ELSE Handled(200, [success |-> TRUE, data |-> signups[id]], <<SelectSignups>>,
                 signups)

GetSignup(header, id) ==
    /\ AdminStep(AdminRequest("get", header, id, NoBody), authenticateToken(header),
                 getSignup(id))
    /\ UNCHANGED <<admins, nextId, supabaseAdmin, jwtSecret, now, ticks, hits, passed,
                   resetTime, pending, issued>>

\* PATCH /signups/:id/status; .single() reports an error when no row has the id
patchStatusNoCheck(id, status, fault) ==
    IF ~supabaseAdmin THEN Handled(503, AdminNotConfigured, <<>>, signups)
    ELSE IF fault # "none" \/ id \notin Ids
    THEN Handled(500, [error |-> "Failed to update status"], <<UpdateSignup>>, signups)
    ELSE LET table == [signups EXCEPT ![id].status = status]
         IN  Handled(200, [success |-> TRUE, data |-> table[id]], <<UpdateSignup>>,
                     table)

patchStatus(id, status, fault) ==
    IF ~supabaseAdmin THEN Handled(503, AdminNotConfigured, <<>>, signups)
    ELSE IF status \notin validStatuses
    THEN Handled(400, InvalidStatus, <<>>, signups)
    ELSE IF fault # "none" \/ id \notin Ids
    THEN Handled(500, [error |-> "Failed to update status"], <<UpdateSignup>>, signups)
    ELSE LET table == [signups EXCEPT ![id].status = status]
         IN  Handled(200, [success |-> TRUE, data |-> table[id]], <<UpdateSignup>>,
                     table)

PatchStatus(header, id, status, fault) ==
    /\ AdminStep(AdminRequest("patch-status", header, id,
                              [NoBody EXCEPT !.status = status]),
                 authenticateToken(header), patchStatus(id, status, fault))
    /\ UNCHANGED <<admins, nextId, supabaseAdmin, jwtSecret, now, ticks, hits, passed,
                   resetTime, pending, issued>>

\* GET /stats
week == 7 * 24 * 3600

getStats ==
    IF ~supabaseAdmin THEN Handled(503, AdminNotConfigured, <<>>, signups)
    ELSE Handled(200,
                 [success |-> TRUE,
                  stats |-> [total |-> Cardinality(Ids),
                             thisWeek |-> Cardinality({id \in Ids :
                                            signups[id].created_at >= now - week}),
                             byStatus |-> [st \in {signups[id].status : id \in Ids} |->
                                Cardinality({id \in Ids : signups[id].status = st})]]],
                 <<SelectSignups, SelectSignups, SelectSignups>>, signups)

Stats(header) ==
    /\ AdminStep(AdminRequest("stats", header, 0, NoBody), authenticateToken(header),
                 getStats)
    /\ UNCHANGED <<admins, nextId, supabaseAdmin, jwtSecret, now, ticks, hits, passed,
                   resetTime, pending, issued>>

\* the fields of a request body laid over a row
overlay(row, body) ==
    [row EXCEPT !.email = IF body.email = NoEmail THEN @ ELSE body.email,
                !.status = IF body.status = Undefined THEN @ ELSE body.status,
                !.entry_source = IF body.entry_source = Undefined THEN @
                                 ELSE body.entry_source]

\* PUT /signups/:id: update(updateData).eq('id', id).select().single()
putSignup(id, body, fault) ==
    IF ~supabaseAdmin THEN Handled(503, AdminNotConfigured, <<>>, signups)
    ELSE IF \/ fault # "none"
            \/ id \notin Ids
            \/ body.email # NoEmail /\ violatesUnique(body.email, id)
    THEN Handled(500, [error |-> "Failed to update participant"], <<UpdateSignup>>,
                 signups)
    ELSE LET table == [signups EXCEPT ![id] = overlay(@, body)]
         IN  Handled(200, [success |-> TRUE, data |-> table[id]], <<UpdateSignup>>,
                     table)

PutSignup(header, id, body, fault) ==
    /\ AdminStep(AdminRequest("put", header, id, body), authenticateToken(header),
                 putSignup(id, body, fault))
    /\ UNCHANGED <<admins, nextId, supabaseAdmin, jwtSecret, now, ticks, hits, passed,
                   resetTime, pending, issued>>

\* the row the datastore makes of an insert: its defaults where the body is silent
manualRow(body, id) ==
    [id |-> id, email |-> body.email, consent_to_contact |-> "true",
     consent_to_sms |-> "false",
     status |-> IF body.status = Undefined THEN "pending" ELSE body.status,
     entry_source |-> IF body.entry_source = Undefined THEN "manual"
                      ELSE body.entry_source,
     created_at |-> now]

\* POST /signups
postSignups(body, fault) ==
    IF ~supabaseAdmin THEN Handled(503, AdminNotConfigured, <<>>, signups)
    ELSE IF fault = "throw"
    THEN Handled(500, [error |-> "Failed to create participant"], <<InsertSignup>>,
                 signups)
    ELSE IF violatesUnique(body.email, 0)
    THEN Handled(409, [error |-> "Email already exists",
                       message |-> "A participant with this email already exists."],
                 <<InsertSignup>>, signups)
    ELSE IF fault = "error"
    THEN Handled(500, [error |-> "Failed to create participant"], <<InsertSignup>>,
                 signups)
    ELSE Handled(201, [success |-> TRUE, data |-> manualRow(body, nextId)],
                 <<InsertSignup>>, inserted(manualRow(body, nextId)))

PostSignups(header, body, fault) ==
    \E a \in {authenticateToken(header)} :
    \E h \in {postSignups(body, fault)} :
    /\ (a.next = 1 /\ h.status = 201) => nextId <= MaxSignups
    /\ AdminStep(AdminRequest("post", header, 0, body), a, h)
    /\ nextId' = IF a.next = 1 /\ h.status = 201 THEN nextId + 1 ELSE nextId
    /\ UNCHANGED <<admins, supabaseAdmin, jwtSecret, now, ticks, hits, passed, resetTime,
                   pending, issued>>

\* DELETE /signups/:id; deleting no row is no error
deleteSignup(id, fault) ==
    IF ~supabaseAdmin THEN Handled(503, AdminNotConfigured, <<>>, signups)
    ELSE IF fault # "none"
    THEN Handled(500, [error |-> "Failed to delete participant"], <<DeleteSignups>>,
                 signups)
    ELSE Handled(200, [success |-> TRUE, message |-> "Participant deleted successfully"],
                 <<DeleteSignups>>, [i \in Ids \ {id} |-> signups[i]])

DeleteSignup(header, id, fault) ==
    /\ AdminStep(AdminRequest("delete", header, id, NoBody), authenticateToken(header),
                 deleteSignup(id, fault))
    /\ UNCHANGED <<admins, nextId, supabaseAdmin, jwtSecret, now, ticks, hits, passed,
                   resetTime, pending, issued>>

----------------------------------------------------------------------------
(* Time *)

Tick(d) ==
    /\ ticks < MaxTicks
    /\ now' = now + d
    /\ ticks' = ticks + 1
    /\ UNCHANGED <<admins, signups, nextId, supabaseAdmin, jwtSecret, hits, passed,
                   resetTime, pending, issued, req, res>>

\* an administrator is disabled; rows of admin_users are managed outside this
\* program
Disable(id) ==
    /\ admins[id].is_active
    /\ admins' = [admins EXCEPT ![id].is_active = FALSE]
    /\ UNCHANGED <<signups, nextId, supabaseAdmin, jwtSecret, now, ticks, hits, passed,
                   resetTime, pending, issued, req, res>>

----------------------------------------------------------------------------
(* Initial states *)

\* a row of admin_users; rows are created outside this program
AdminRow(id, email, hash, active, first) ==
    [id |-> id, email |-> email, name |-> IF id = 1 THEN "n1" ELSE "n2",
     password_hash |-> hash, is_active |-> active, first_login |-> first,
     last_login_at |-> 0, last_activity_at |-> 0, updated_at |-> 0]

Hashes == {NoHash, bcryptHash(PwGood)}

\* one administrator, or two with distinct emails of which the second matches
\* the first read as a LIKE pattern
AdminTables ==
    {[id \in {1} |-> AdminRow(1, EmailA, h, act, first)] :
        h \in Hashes, act \in BOOLEAN, first \in BOOLEAN}
    \cup
    {[id \in AdminIds |->
        IF id = 1 THEN AdminRow(1, EmailA, h[1], act[1], first)
        ELSE AdminRow(2, EmailB, h[2], act[2], TRUE)] :
        h \in [AdminIds -> Hashes], act \in [AdminIds -> BOOLEAN], first \in BOOLEAN}

InitRest ==
    /\ signups = <<>>
    /\ nextId = 1
    /\ now = 1
    /\ ticks = 0
    /\ hits = [ip \in IPs |-> 0]
    /\ resetTime = [ip \in IPs |-> 0]
    /\ passed = [ip \in IPs |-> <<>>]
    /\ pending = <<>>
    /\ issued = {}
    /\ req = Request("none", <<>>, <<>>, <<>>)
    /\ res = Response("none", 0, [success |-> TRUE], <<>>)

Init ==
    /\ admins \in AdminTables
    /\ supabaseAdmin \in BOOLEAN
    /\ jwtSecret \in Secrets \cup {NoSecret}
    /\ InitRest

Next ==
    \/ \E e \in ReqEmails, p \in ReqPasswords, f \in Faults : Login(e, p, f)
    \/ \E e \in ReqEmails, p \in ReqPasswords, f1 \in Faults :
          \E f2 \in SecondFaults(f1) : SetupPassword(e, p, f1, f2)

Spec == Init /\ [][Next]_vars

\* tokens over time: one active administrator with a password, the clock,
\* the two routes that issue tokens and a route behind the middleware
InitToken ==
    /\ admins = [id \in {1} |-> AdminRow(1, EmailA, bcryptHash(PwGood), TRUE, TRUE)]
    /\ supabaseAdmin = TRUE
    /\ jwtSecret \in Secrets \cup {NoSecret}
    /\ InitRest

NextToken ==
    \/ \E p \in {PwGood, PwOther} : Login(EmailA, p, "none")
    \/ SetupPassword(EmailA, PwOther, "none", "none")
    \/ \E h \in Headers : Verify(h)
    \/ \E h \in Headers, f \in Faults : Logout(h, f)
    \/ \E h \in Headers, f \in Faults : UpdateActivity(h, f)
    \/ \E d \in TokenJumps : Tick(d)

SpecToken == InitToken /\ [][NextToken]_vars

\* a held token while the datastore changes under it: logout, activity pings,
\* a new password, the administrator disabled, half days passing
HeldHeaders == {<<Word("Bearer"), t>> : t \in Held}

HalfDay == expiresIn \div 2

NextStateless ==
    \/ Login(EmailA, PwGood, "none")
    \/ SetupPassword(EmailA, PwOther, "none", "none")
    \/ \E h \in HeldHeaders : Verify(h)
    \/ \E h \in HeldHeaders : Logout(h, "none")
    \/ \E h \in HeldHeaders : UpdateActivity(h, "none")
    \/ Disable(1)
    \/ Tick(HalfDay)

SpecStateless == InitToken /\ [][NextStateless]_vars

\* public signups: one address, the requests that meet in the table and in
\* flight, every outcome of the insert
SignupInput(email, valid, contact, sms, status) ==
    [email |-> email, valid |-> valid, contact |-> contact, sms |-> sms,
     status |-> status]

SignupInputs ==
    {SignupInput(EmailA, TRUE, Undefined, Undefined, Undefined),
     SignupInput(<<"A", "_", "B">>, TRUE, "false", "yes", "enrolled"),
     SignupInput(EmailB, TRUE, "true", "false", Undefined),
     SignupInput(EmailB, FALSE, Undefined, Undefined, Undefined)}

InitSignup ==
    /\ admins = [id \in {1} |-> AdminRow(1, EmailA, bcryptHash(PwGood), TRUE, TRUE)]
    /\ supabaseAdmin = TRUE
    /\ jwtSecret \in Secrets
    /\ InitRest

NextSignup ==
    \/ \E i \in SignupInputs :
          SignupStart("ip1", i.email, i.valid, i.contact, i.sms, i.status)
    \/ \E i \in 1..Len(pending), f \in Faults : SignupFinish(i, f)

SpecSignup == InitSignup /\ [][NextSignup]_vars

\* the limiter: two addresses, the clock, a table that holds EmailA, requests
\* that reach the email check and requests that validation turns away
LimiterInputs ==
    {SignupInput(EmailA, TRUE, Undefined, Undefined, Undefined),
     SignupInput(EmailA, FALSE, Undefined, Undefined, Undefined)}

InitLimiter ==
    /\ admins = [id \in {1} |-> AdminRow(1, EmailA, bcryptHash(PwGood), TRUE, TRUE)]
    /\ supabaseAdmin = TRUE
    /\ jwtSecret \in Secrets
    /\ now = 1
    /\ signups = [id \in {1} |->
                    signupRow(SignupRequest("ip1", EmailA, TRUE, Undefined, Undefined,
                                            Undefined), 1)]
    /\ nextId = 2
    /\ ticks = 0
    /\ hits = [ip \in IPs |-> 0]
    /\ resetTime = [ip \in IPs |-> 0]
    /\ passed = [ip \in IPs |-> <<>>]
    /\ pending = <<>>
    /\ issued = {}
    /\ req = Request("none", <<>>, <<>>, <<>>)
    /\ res = Response("none", 0, [success |-> TRUE], <<>>)

NextLimiter ==
    \/ \E ip \in IPs, i \in LimiterInputs :
          SignupStart(ip, i.email, i.valid, i.contact, i.sms, i.status)
    \/ \E d \in WindowJumps : Tick(d)

SpecLimiter == InitLimiter /\ [][NextLimiter]_vars

\* the routes behind the middleware: an administrator who logs in and the
\* headers a client can send
AdminHeaders ==
    {<<>>} \cup {<<Word("Bearer"), t>> : t \in Held \cup {ForgedToken}}

AdminBodies ==
    {[NoBody EXCEPT !.email = EmailA],
     [NoBody EXCEPT !.email = <<"A", "_", "B">>, !.status = "archived"],
     [NoBody EXCEPT !.status = "enrolled"]}

StatusValues == {Undefined, "archived", "contacted"}

WriteFaults == {"none", "error"}

InitAdmin ==
    /\ admins = [id \in {1} |-> AdminRow(1, EmailA, bcryptHash(PwGood), TRUE, TRUE)]
    /\ supabaseAdmin \in BOOLEAN
    /\ jwtSecret \in Secrets \cup {NoSecret}
    /\ InitRest

NextAdmin ==
    \/ Login(EmailA, PwGood, "none")
    \/ \E h \in AdminHeaders, st \in {Undefined, "pending"} : ListSignups(h, st)
    \/ \E h \in AdminHeaders, id \in 1..MaxSignups : GetSignup(h, id)
    \/ \E h \in AdminHeaders, id \in 1..MaxSignups, st \in StatusValues,
          f \in WriteFaults : PatchStatus(h, id, st, f)
    \/ \E h \in AdminHeaders : Stats(h)
    \/ \E h \in AdminHeaders, id \in 1..MaxSignups, b \in AdminBodies,
          f \in WriteFaults : PutSignup(h, id, b, f)
    \/ \E h \in AdminHeaders, b \in AdminBodies, f \in WriteFaults :
          PostSignups(h, b, f)
    \/ \E h \in AdminHeaders, id \in 1..MaxSignups, f \in WriteFaults :
          DeleteSignup(h, id, f)
    \/ \E h \in AdminHeaders : Verify(h)
    \/ \E h \in AdminHeaders : Logout(h, "none")
    \/ \E h \in AdminHeaders : UpdateActivity(h, "none")

SpecAdmin == InitAdmin /\ [][NextAdmin]_vars

----------------------------------------------------------------------------
(* Properties of login and setup-password, under Spec *)

\* the email of a request is the email of row id, up to case and outer blanks
Addresses(email, id) == SameEmail(trim(email), admins[id].email)

HasToken(body) == "token" \in DOMAIN body

\* C1: for every active administrator without a password hash, a login with
\* that administrator's email and any password is answered 403 PasswordNotSet
\* with requiresPasswordSetup, the email and the name; it carries no token,
\* no token is issued and no row is updated (privileged client configured).
C1_PasswordNotSet ==
    [][\A id \in DOMAIN admins :
        ( /\ req'.route = "login"
          /\ supabaseAdmin
          /\ req'.email # <<>> /\ req'.password # <<>>
          /\ Addresses(req'.email, id)
          /\ admins[id].is_active
          /\ admins[id].password_hash = NoHash )
        => ( /\ res'.status = 403
             /\ res'.body = PasswordNotSet(admins[id])
             /\ ~HasToken(res'.body)
             /\ issued' = issued
             /\ admins' = admins )]_vars

\* no row of admin_users has this email
Unknown(email) == \A id \in DOMAIN admins : ~Addresses(email, id)

\* an active administrator with a password hash has this email, and the
\* password is not the one hashed
WrongPassword(email, password) ==
    \E id \in DOMAIN admins :
        /\ Addresses(email, id)
        /\ admins[id].is_active
        /\ admins[id].password_hash # NoHash
        /\ ~bcryptCompare(password, admins[id].password_hash)

\* C2: the login response for an email no administrator has is 401 and is the
\* same, in status and body, as the response to a login for an existing active
\* administrator with a password hash and a wrong password.
C2_EnumerationResistance ==
    [][( /\ req'.route = "login"
         /\ supabaseAdmin
         /\ req'.email # <<>> /\ req'.password # <<>>
         /\ Unknown(req'.email) )
        => ( /\ res'.status = 401
             /\ \A e \in ReqEmails, p \in ReqPasswords :
                   (e # <<>> /\ p # <<>> /\ WrongPassword(e, p))
                   => LET r == LoginResult(e, p, "none") IN
                      r.status = res'.status /\ r.body = res'.body )]_vars

\* the strength rule as the documentation words it
FailsStrengthRule(password) ==
    \/ Len(password) < 8
    \/ \A i \in 1..Len(password) : password[i] \notin LowerChars
    \/ \A i \in 1..Len(password) : password[i] \notin UpperChars
    \/ \A i \in 1..Len(password) : password[i] \notin DigitChars

\* C4: for a disabled administrator, login and setup-password with that
\* administrator's email are both answered 403 AccountDisabled whatever the
\* password, right or wrong; no token is issued and no row is updated.
\* (Stated here for the passwords that reach the lookup: setup-password
\* answers a password failing the strength rule with 400 before it looks the
\* administrator up.)
C4_AccountDisabled ==
    [][\A id \in DOMAIN admins :
        ( /\ req'.route \in {"login", "setup-password"}
          /\ supabaseAdmin
          /\ req'.email # <<>> /\ req'.password # <<>>
          /\ (req'.route = "setup-password" => ~FailsStrengthRule(req'.password))
          /\ Addresses(req'.email, id)
          /\ ~admins[id].is_active )
        => ( /\ res'.status = 403
             /\ res'.body = AccountDisabled
             /\ issued' = issued
             /\ admins' = admins )]_vars

\* C7: a setup-password request whose password fails the strength rule is
\* answered 400 before any datastore call: no row is read or updated (hash,
\* first-login flag and timestamps stay) and no token is issued.
C7_WeakPasswordRejected ==
    /\ [](\A e \in ReqEmails, p \in StrengthCases, f1 \in Faults, f2 \in Faults :
            FailsStrengthRule(p)
            => LET r == SetupResult(e, p, f1, f2) IN
               /\ r.status = 400
               /\ r.db = <<>>
               /\ r.hashed = NoUser /\ r.stamped = NoUser
               /\ ~HasToken(r.body))
    /\ [][(req'.route = "setup-password" /\ FailsStrengthRule(req'.password))
            => ( /\ res'.status = 400
                 /\ res'.db = <<>>
                 /\ ~HasToken(res'.body)
                 /\ issued' = issued
                 /\ admins' = admins )]_vars

\* a weak password was refused for an administrator that could have set one
C7_Witness ==
    /\ req.route = "setup-password"
    /\ req.password = PwNoUpper
    /\ res.status = 400
    /\ res.body = PasswordRequirementsNotMet
    /\ supabaseAdmin
    /\ \E id \in DOMAIN admins : Addresses(req.email, id) /\ admins[id].is_active

\* the credentials of the request verify: its email finds an active
\* administrator whose stored hash is the hash of its password
CredentialsVerify(email, password) ==
    /\ email # <<>> /\ password # <<>>
    /\ findUser(email) # NoUser
    /\ admins[findUser(email)].is_active
    /\ admins[findUser(email)].password_hash # NoHash
    /\ bcryptCompare(password, admins[findUser(email)].password_hash)

\* C12: a login whose credentials verify and whose token is signed is answered
\* with the success response and the token also when the update of
\* last_login_at, last_activity_at and first_login fails, be it with an error
\* result or with an exception.
C12_BestEffortUpdate ==
    [][( /\ req'.route = "login"
         /\ supabaseAdmin
         /\ jwtSecret # NoSecret
         /\ CredentialsVerify(req'.email, req'.password)
         /\ Addresses(req'.email, findUser(req'.email))
         /\ res'.fault # "none" )
       => ( /\ res'.status = 200
            /\ HasToken(res'.body) )]_vars

\* C15: the checks of a login run in the order email and password present,
\* privileged client configured, administrator found, account active,
\* password hash set, password verified, signing secret present; the first
\* that fails gives the response (400, 503, 401, 403 disabled, 403 password
\* not set, 401, 500) and nothing after it runs: no later datastore call, no
\* token, no row changed. A response carries a token only if all seven passed.
C15_LoginChain ==
    [][req'.route = "login"
       => \A id \in {findUser(req'.email)} :
          LET present == req'.email # <<>> /\ req'.password # <<>>
              found == id # NoUser
              active == admins[id].is_active
              hashSet == admins[id].password_hash # NoHash
              verified == bcryptCompare(req'.password, admins[id].password_hash)
              secret == jwtSecret # NoSecret
              stopped == ~HasToken(res'.body) /\ issued' = issued /\ admins' = admins
          IN
          /\ ~present
               => (res'.status = 400 /\ res'.body = ValidationFailed
                   /\ res'.db = <<>> /\ stopped)
          /\ (present /\ ~supabaseAdmin)
               => (res'.status = 503 /\ res'.body = ServiceUnavailable
                   /\ res'.db = <<>> /\ stopped)
          /\ (present /\ supabaseAdmin /\ ~found)
               => (res'.status = 401 /\ res'.body = InvalidCredentials
                   /\ res'.db = <<SelectAdmin>> /\ stopped)
          /\ (present /\ supabaseAdmin /\ found /\ ~active)
               => (res'.status = 403 /\ res'.body = AccountDisabled
                   /\ res'.db = <<SelectAdmin>> /\ stopped)
          /\ (present /\ supabaseAdmin /\ found /\ active /\ ~hashSet)
               => (res'.status = 403 /\ res'.body = PasswordNotSet(admins[id])
                   /\ res'.db = <<SelectAdmin>> /\ stopped)
          /\ (present /\ supabaseAdmin /\ found /\ active /\ hashSet /\ ~verified)
               => (res'.status = 401 /\ res'.body = InvalidCredentials
                   /\ res'.db = <<SelectAdmin>> /\ stopped)
          /\ (present /\ supabaseAdmin /\ found /\ active /\ hashSet /\ verified
                /\ ~secret)
               => (res'.status = 500 /\ res'.body = ServerConfigurationError
                   /\ res'.db = <<SelectAdmin>> /\ stopped)
          /\ HasToken(res'.body)
               => (present /\ supabaseAdmin /\ found /\ active /\ hashSet /\ verified
                   /\ secret /\ res'.status = 200)]_vars

\* a login for a disabled administrator without password hash, on a server
\* without signing secret, was answered by the first of the failing checks
C15_Witness ==
    /\ req.route = "login"
    /\ req.email # <<>> /\ req.password # <<>>
    /\ supabaseAdmin
    /\ jwtSecret = NoSecret
    /\ findUser(req.email) # NoUser
    /\ ~admins[findUser(req.email)].is_active
    /\ admins[findUser(req.email)].password_hash = NoHash
    /\ res.status = 403
    /\ res.body = AccountDisabled

\* C16: for every active administrator, with or without password hash, a
\* setup-password request with that administrator's email and a strong password
\* succeeds: the stored hash becomes the hash of the new password, first_login
\* is cleared and the response carries a token and firstLogin = false. From
\* then on a login with the new password gets a token and firstLogin = false,
\* and a login with any other password gets 401 Invalid credentials
\* (privileged client and signing secret configured, datastore writes succeed).
C16_SetupThenLogin ==
    [][\A id \in DOMAIN admins : \A e \in {req'.email} : \A p \in {req'.password} :
        ( /\ req'.route = "setup-password"
          /\ supabaseAdmin
          /\ jwtSecret # NoSecret
          /\ Addresses(e, id)
          /\ admins[id].is_active
          /\ passwordRegexTest(p)
          /\ res'.fault = "none" )
        => ( /\ res'.status = 200
             /\ HasToken(res'.body)
             /\ res'.body.user.firstLogin = FALSE
             /\ admins'[id].password_hash = bcryptHash(p)
             /\ admins'[id].first_login = FALSE
             /\ LoginResult(e, p, "none")'.status = 200
             /\ HasToken(LoginResult(e, p, "none")'.body)
             /\ LoginResult(e, p, "none")'.body.user.firstLogin = FALSE
             /\ \A old \in ReqPasswords \ {p, <<>>} :
                   /\ LoginResult(e, old, "none")'.status = 401
                   /\ LoginResult(e, old, "none")'.body = InvalidCredentials )]_vars

\* C18: a setup-password request that ends in an error response (400, 404,
\* 403, 503 or 500, the missing signing secret included) leaves every
\* administrator's password hash and first-login flag as they were; the hash
\* changes only in a request answered with the success response and a token
\* (shown on requests whose email finds no other administrator than its own).
C18_AllOrNothing ==
    [][( /\ req'.route = "setup-password"
         /\ findUser(req'.email) # NoUser
              => Addresses(req'.email, findUser(req'.email)) )
       => \A id \in DOMAIN admins :
            ( \/ res'.status # 200
              \/ ~HasToken(res'.body) )
            => ( /\ admins'[id].password_hash = admins[id].password_hash
                 /\ admins'[id].first_login = admins[id].first_login )]_vars

----------------------------------------------------------------------------
(* Properties of tokens and of the middleware, under SpecToken *)

Bearer(token) == <<Word("Bearer"), token>>

AuthRoutes == {"verify", "logout", "update-activity"}

\* C3: a token issued by login or setup-password at time T is accepted by the
\* middleware at every time before T + 24h and refused with 401 and the
\* expired-token message at every time after T + 24h (secret unchanged).
C3_TokenLifetime ==
    /\ [](\A k \in issued :
            k.token.sig = jwtSecret
            => LET a == authenticateToken(Bearer(k.token)) IN
               /\ now < k.at + 24 * 3600
                    => (a.next = 1 /\ a.user.id = k.token.id)
               /\ now > k.at + 24 * 3600
                    => (a.next = 0 /\ a.status = 401 /\ a.body = TokenExpired))
    /\ [][\A k \in issued :
            ( /\ req'.route \in AuthRoutes
              /\ req'.header = Bearer(k.token)
              /\ now' = now )
            => ( /\ now < k.at + 24 * 3600 => (res'.next = 1 /\ res'.status = 200)
                 /\ now > k.at + 24 * 3600
                      => ( /\ res'.next = 0
                           /\ res'.status = 401
                           /\ res'.body = TokenExpired ) )]_vars

\* a held token was refused as expired one minute after its 24 hours
C3_Witness ==
    \E k \in issued :
        /\ req.route = "verify"
        /\ req.header = Bearer(k.token)
        /\ now = k.at + 24 * 3600 + 60
        /\ res.status = 401
        /\ res.body = TokenExpired

\* the header carries a credential: a second word
HasCredential(header) == Len(header) >= 2

WellSigned(token) == token.kind = "jwt" /\ token.sig = jwtSecret

\* C9: the middleware answers each outcome in one way: no token -> 401 no
\* token; secret absent with a token present -> 500 configuration error;
\* malformed or badly signed -> 401 invalid token; expired -> 401 expired;
\* valid -> req.user = {id, email, name} of the claims and next() called once.
\* Unless the token is valid next() is not called.
C9_MiddlewareOutcomes ==
    /\ [](\A h \in Headers :
            LET a == authenticateToken(h) IN
            /\ ~HasCredential(h)
                 => (a.status = 401 /\ a.body = NoTokenProvided /\ a.next = 0)
            /\ (HasCredential(h) /\ jwtSecret = NoSecret)
                 => (a.status = 500 /\ a.body = ServerConfigurationError /\ a.next = 0)
            /\ (HasCredential(h) /\ jwtSecret # NoSecret /\ ~WellSigned(h[2]))
                 => (a.status = 401 /\ a.body = InvalidToken /\ a.next = 0)
            /\ (HasCredential(h) /\ jwtSecret # NoSecret /\ WellSigned(h[2])
                  /\ now >= h[2].exp)
                 => (a.status = 401 /\ a.body = TokenExpired /\ a.next = 0)
            /\ (HasCredential(h) /\ jwtSecret # NoSecret /\ WellSigned(h[2])
                  /\ now < h[2].exp)
                 => ( /\ a.next = 1
                      /\ a.user = [id |-> h[2].id, email |-> h[2].email,
                                   name |-> h[2].name] ))
    /\ [][(req'.route \in AuthRoutes /\ now' = now)
            => ( /\ res'.next \in {0, 1}
                 /\ res'.next = 0
                      => ( /\ res'.status \in {401, 500}
                           /\ res'.db = <<>>
                           /\ admins' = admins )
                 /\ (HasCredential(req'.header) /\ jwtSecret = NoSecret)
                      => res'.status = 500
                 /\ res'.next = 1
                      => ( /\ HasCredential(req'.header)
                           /\ res'.user.id = req'.header[2].id ) )]_vars

\* a request with a token met a server without signing secret
C9_Witness ==
    /\ req.route \in AuthRoutes
    /\ HasCredential(req.header)
    /\ jwtSecret = NoSecret
    /\ res.status = 500
    /\ res.body = ServerConfigurationError
    /\ res.next = 0

----------------------------------------------------------------------------
(* Properties of the public signup, under SpecSignup and SpecLimiter *)

\* a signup record holds this email, up to case
Present(email) == \E id \in Ids : SameEmail(signups[id].email, email)

\* the step takes a public signup up to its insert
StartsSignup == res'.route = "signup" /\ <<hits, resetTime>>' # <<hits, resetTime>>

\* the step is the insert of a public signup and its answer
FinishesSignup == res'.route = "signup" /\ Len(pending') < Len(pending)

\* C5: a public signup whose email is already among the signup records, up to
\* case, creates no record and is answered 409 "Email already registered":
\* by the email check, or, when the check let it through (two submissions of
\* one email in flight, in either order), by the insert that the unique
\* constraint refuses, never by a 500 (the request passed the limiter and
\* validation, the datastore answered the insert).
C5_DuplicateEmail ==
    [][ /\ ( /\ StartsSignup
             /\ limiterPasses(req'.ip) /\ req'.valid
             /\ Present(req'.email) )
           => ( /\ signups' = signups
                /\ \/ res'.status = 409 /\ res'.body.error = "Email already registered"
                   \/ res'.status = 0 /\ pending' = Append(pending, req') )
        /\ ( /\ FinishesSignup
             /\ res'.fault = "none"
             /\ Present(req'.email) )
           => ( /\ signups' = signups
                /\ res'.status = 409
                /\ res'.body.error = "Email already registered" ) ]_vars

\* a submission passed the email check, lost the race to another with the
\* same email and was answered 409 by the insert
C5_Witness ==
    /\ res.route = "signup"
    /\ res.db = <<SelectSignups, InsertSignup>>
    /\ res.fault = "none"
    /\ res.status = 409
    /\ res.body = EmailRegisteredOnInsert
    /\ \E id \in Ids : signups[id].email = toLowerCase(req.email)
    /\ Cardinality(Ids) = 1

\* requests of ip counted in its open window
InWindow(ip) == IF now < resetTime[ip] THEN hits[ip] ELSE 0

\* C6: of the requests one address sends to the public signup within a window
\* of one hour, the first 5 pass the limiter and the 6th, like every later one,
\* is answered 429 "Too many signup attempts" before validation and without
\* any datastore call; the counters of the other addresses are not touched.
C6_FiveThenRejected ==
    [][\A ip \in IPs :
        (StartsSignup /\ req'.ip = ip)
        => ( /\ InWindow(ip) < 5 => res'.status # 429
             /\ InWindow(ip) >= 5
                  => ( /\ res'.status = 429
                       /\ res'.body = TooManyRequests
                       /\ res'.db = <<>>
                       /\ signups' = signups
                       /\ pending' = pending )
             /\ \A other \in IPs \ {ip} :
                  /\ hits'[other] = hits[other]
                  /\ resetTime'[other] = resetTime[other]
                  /\ InWindow(other) < 5 => limiterPasses(other)' ) ]_vars

\* the 6th request of an address in its window was refused although it was
\* valid, while another address is in a window of its own
C6_Witness ==
    /\ res.route = "signup"
    /\ res.status = 429
    /\ req.valid
    /\ now < resetTime[req.ip]
    /\ hits[req.ip] = 6
    /\ \E other \in IPs \ {req.ip} : now < resetTime[other] /\ hits[other] \in 1..4

\* a value of a request body that JavaScript takes for true in x || false
Truthy(v) == v \notin {Undefined, "false"}

\* C14: the record a successful public signup creates has status pending
\* whatever status the body carries, the submitted email in lower case,
\* consent_to_contact true unless the body says exactly false, and
\* consent_to_sms false unless the body supplies a truthy value.
C14_CreatedRecord ==
    [][(FinishesSignup /\ res'.status = 201)
       => ( /\ nextId \notin Ids
            /\ DOMAIN signups' = Ids \cup {nextId}
            /\ \A id \in Ids : signups'[id] = signups[id]
            /\ LET row == signups'[nextId] IN
               /\ row.status = "pending"
               /\ SameEmail(row.email, req'.email)
               /\ Chars(row.email) \cap UpperChars = {}
               /\ Len(row.email) = Len(req'.email)
               /\ row.consent_to_contact =
                     (IF req'.consent_to_contact = "false" THEN "false" ELSE "true")
               /\ row.consent_to_sms = "false" <=> ~Truthy(req'.consent_to_sms) )]_vars

\* a submission with status enrolled, contact refused, sms accepted and an
\* email in capitals became a pending record with the email in lower case
C14_Witness ==
    /\ res.route = "signup"
    /\ res.status = 201
    /\ req.status = "enrolled"
    /\ req.consent_to_contact = "false"
    /\ Truthy(req.consent_to_sms)
    /\ Chars(req.email) \cap UpperChars # {}
    /\ \E id \in Ids :
          /\ signups[id].email = toLowerCase(req.email)
          /\ signups[id].status = "pending"
          /\ signups[id].consent_to_contact = "false"
          /\ signups[id].consent_to_sms # "false"

\* C13: for every address and every interval of one hour, wherever it starts,
\* at most 5 signup requests of that address pass the limiter (it is enough to
\* look at the intervals that start with a request that passed).
C13_RollingWindow ==
    \A ip \in IPs :
        \A i \in 1..Len(passed[ip]) :
            Cardinality({j \in 1..Len(passed[ip]) :
                            /\ passed[ip][i] <= passed[ip][j]
                            /\ passed[ip][j] < passed[ip][i] + 3600}) <= 5

----------------------------------------------------------------------------
(* Properties of the routes behind the middleware, under SpecAdmin *)

\* the request carries a token that the middleware verifies
Verified(header) ==
    /\ HasCredential(header)
    /\ jwtSecret # NoSecret
    /\ WellSigned(header[2])
    /\ now < header[2].exp

AdminRoutes ==
    {"list", "get", "patch-status", "stats", "put", "post", "delete"} \cup AuthRoutes

\* C10: no admin route (list, get, status update, stats, full update, manual
\* create, delete, verify, logout, update-activity) reads or writes the
\* datastore for a request that carried no token the middleware verified: its
\* handler is not entered and both tables are as before.
C10_AdminRoutesGuarded ==
    [][(req'.route \in AdminRoutes /\ ~Verified(req'.header))
       => ( /\ res'.next = 0
            /\ res'.db = <<>>
            /\ res'.status \in {401, 500}
            /\ signups' = signups
            /\ nextId' = nextId
            /\ admins' = admins )]_vars

\* a delete with a token signed by another secret left the record in place
C10_Witness ==
    /\ req.route = "delete"
    /\ HasCredential(req.header)
    /\ ~Verified(req.header)
    /\ req.id \in Ids
    /\ res.status = 401
    /\ res.body = InvalidToken
    /\ res.db = <<>>

----------------------------------------------------------------------------
(* Properties of held tokens while the datastore changes, under SpecStateless *)

\* C11: the middleware accepts a held token exactly when it is signed with the
\* current secret and not expired, whatever admin_users holds: after logout,
\* update-activity, a new password set by setup-password or the administrator
\* being disabled, an unexpired token is accepted as before.
C11_Stateless ==
    /\ [](\A k \in issued :
            authenticateToken(<<Word("Bearer"), k.token>>).next = 1
            <=> (k.token.sig = jwtSecret /\ now < k.token.exp))
    /\ [][\A k \in issued :
            ( /\ req'.route \in AuthRoutes
              /\ req'.header = <<Word("Bearer"), k.token>>
              /\ k.token.sig = jwtSecret
              /\ now < k.token.exp
              /\ now' = now )
            => (res'.next = 1 /\ res'.status = 200 /\ res'.user.id = k.token.id)]_vars

\* a token issued by login was accepted by verify after its administrator was
\* disabled, given a new password and logged out
C11_Witness ==
    \E k \in issued :
        /\ req.route = "verify"
        /\ req.header = <<Word("Bearer"), k.token>>
        /\ res.status = 200
        /\ res.next = 1
        /\ now > k.at
        /\ ~admins[k.token.id].is_active
        /\ admins[k.token.id].password_hash = bcryptHash(PwOther)
        /\ admins[k.token.id].last_activity_at > k.at

\* C17: whatever public signups and authenticated admin operations (status
\* update, full update, manual create, delete) have run, the status of every
\* stored signup record is one of pending, contacted, enrolled, inactive,
\* completed.
C17_StatusEnum ==
    \A id \in Ids :
        signups[id].status \in {"pending", "contacted", "enrolled", "inactive", "completed"}

====
